---- MODULE Spec2Model ----
(***************************************************************************)
(* ATAK Replay Viewer (src/replay.py): the module-level log parser, the    *)
(* load-time frame and timeline, the snapshot reconstruction done by       *)
(* create_figure, and the Dash callbacks that drive the cursor, the timer  *)
(* and the stored viewport.                                                *)
(*                                                                         *)
(* Text is modelled as a sequence of lexemes. A lexeme is one character    *)
(* (a letter, a digit, a bracket, a colon, a comma, a blank) or one of the *)
(* fixed multi-character pieces the parser only ever handles whole: the    *)
(* "--- Snapshot" prefix, the " at " and " UTC" separators, a timestamp    *)
(* text and a number text. Times are seconds after 12:00:00 of the log's   *)
(* day; coordinates are thousandths of a degree.                            *)
(***************************************************************************)
EXTENDS Integers, Sequences, FiniteSets, TLC

\* The longest log, in lines, that Init draws.
MaxLines == 3

----------------------------------------------------------------------------
\* Lexemes

TS0 == "2024-01-01 12:00:00"
TS5 == "2024-01-01 12:00:05"
TS10 == "2024-01-01 12:00:10"
TSShort == "2024-01-01 12:00"

Whitespace == {" ", "\n"}

\* current_time = None, before the first header.
NoTime == -1

\* datetime.datetime.strptime(s, "%Y-%m-%d %H:%M:%S"): the texts the format
\* accepts, with the time each denotes. Anything else raises ValueError.
TimeTexts == {TS0, TS5, TS10}

TimeOf(t) ==
  CASE t = TS0 -> 0
    [] t = TS5 -> 5
    [] t = TS10 -> 10

strptime_ok(s) == Len(s) = 1 /\ s[1] \in TimeTexts

strptime(s) == TimeOf(s[1])

\* float(x) on a number text: "174.8" and "174.80" are two spellings of one
\* value. Anything else raises ValueError.
FloatTexts == {"174.76", "-41.29", "174.80", "174.8", "-41.30", "174.70", "-41.20"}

FloatOf(t) ==
  CASE t = "174.76" -> 174760
    [] t = "-41.29" -> -41290
    [] t = "174.80" -> 174800
    [] t = "174.8" -> 174800
    [] t = "-41.30" -> -41300
    [] t = "174.70" -> 174700
    [] t = "-41.20" -> -41200

\* str.strip(): leading and trailing whitespace removed.
RECURSIVE lstrip(_)
lstrip(s) ==
  IF s # <<>> /\ Head(s) \in Whitespace THEN lstrip(Tail(s)) ELSE s

RECURSIVE rstrip(_)
rstrip(s) ==
  IF s # <<>> /\ s[Len(s)] \in Whitespace
  THEN rstrip(SubSeq(s, 1, Len(s) - 1))
  ELSE s

strip(s) == rstrip(lstrip(s))

\* float() ignores surrounding whitespace.
float_ok(x) == Len(strip(x)) = 1 /\ strip(x)[1] \in FloatTexts

float(x) == FloatOf(strip(x)[1])

\* sep in s
Contains(s, sep) == \E k \in 1..Len(s) : s[k] = sep

\* s.index(sep), 1-based; only used where Contains(s, sep).
IndexOf(s, sep) == CHOOSE k \in 1..Len(s) : s[k] = sep /\ \A j \in 1..(k - 1) : s[j] # sep

\* s.split(sep): the pieces between the occurrences of sep, one more than
\* the number of occurrences.
RECURSIVE split(_, _)
split(s, sep) ==
  IF Contains(s, sep)
  THEN <<SubSeq(s, 1, IndexOf(s, sep) - 1)>>
         \o split(SubSeq(s, IndexOf(s, sep) + 1, Len(s)), sep)
  ELSE <<s>>

\* c.isalpha()
Letters == {"A", "l", "p", "h", "a", "b", "d", "r", "E", "t", "g"}

isalpha(c) == c \in Letters

\* c.upper()
upper(c) ==
  CASE c = "l" -> "L"
    [] c = "p" -> "P"
    [] c = "h" -> "H"
    [] c = "a" -> "A"
    [] c = "b" -> "B"
    [] c = "d" -> "D"
    [] c = "r" -> "R"
    [] c = "t" -> "T"
    [] c = "g" -> "G"
    [] OTHER -> c

\* s[:n]
Take(s, n) == SubSeq(s, 1, IF Len(s) < n THEN Len(s) ELSE n)

\* Faulty variant of the tag: the first three characters, then the letters.
TagOf_prefix(user) ==
  LET alpha == SelectSeq(Take(user, 3), isalpha)
  IN  [k \in 1..Len(alpha) |-> upper(alpha[k])]

\* "".join([c for c in user if c.isalpha()][:3]).upper()
TagOf(user) ==
  LET alpha == Take(SelectSeq(user, isalpha), 3)
  IN  [k \in 1..Len(alpha) |-> upper(alpha[k])]

----------------------------------------------------------------------------
\* One iteration of the parsing loop

ParseResult(err, ct, rows) == [error |-> err, current_time |-> ct, data |-> rows]

\* The "--- Snapshot" branch: line.split(" at ")[1].split(" UTC")[0], then
\* strptime. A line without " at " has no piece [1] (IndexError).
ParseHeader(line, ct, rows) ==
  LET pieces == split(line, " at ")
  IN  IF Len(pieces) < 2
      THEN ParseResult("IndexError", ct, rows)
      ELSE LET ts_str == split(pieces[2], " UTC")[1]
           IN  IF strptime_ok(ts_str)
               THEN ParseResult("none", strptime(ts_str), rows)
               ELSE ParseResult("ValueError", ct, rows)

\* Faulty variant of the entry body: the two coordinates stored swapped.
ParseUserLoc_swapped(rest, entry_time, ct, rows) ==
  LET parts == split(rest, ":")
  IN  IF Len(parts) # 2
      THEN ParseResult("ValueError", ct, rows)
      ELSE LET user == strip(parts[1])
               loc == strip(parts[2])
               fields == Take(split(loc, ","), 2)
           IN  IF \E k \in 1..Len(fields) : ~float_ok(fields[k])
               THEN ParseResult("ValueError", ct, rows)
               ELSE IF Len(fields) < 2
               THEN ParseResult("IndexError", ct, rows)
               ELSE ParseResult("none", ct,
                      Append(rows, [time |-> entry_time,
                                    user |-> user,
                                    lon |-> float(fields[2]),
                                    lat |-> float(fields[1]),
                                    tag |-> TagOf(user)]))

\* The body of `if ":" in rest`: the unpacking of rest.split(":") into
\* exactly two names, the floats of the first two comma-separated fields,
\* the subscripts coords[0] and coords[1], and the append.
ParseUserLoc(rest, entry_time, ct, rows) ==
  LET parts == split(rest, ":")
  IN  IF Len(parts) # 2
      THEN ParseResult("ValueError", ct, rows)
      ELSE LET user == strip(parts[1])
               loc == strip(parts[2])
               fields == Take(split(loc, ","), 2)
           IN  IF \E k \in 1..Len(fields) : ~float_ok(fields[k])
               THEN ParseResult("ValueError", ct, rows)
               ELSE IF Len(fields) < 2
               THEN ParseResult("IndexError", ct, rows)
               ELSE ParseResult("none", ct,
                      Append(rows, [time |-> entry_time,
                                    user |-> user,
                                    lon |-> float(fields[1]),
                                    lat |-> float(fields[2]),
                                    tag |-> TagOf(user)]))

\* The "[" branch: line.index("]") raises ValueError without a "]";
\* line[1:ts_end] is the timestamp text and line[ts_end+2:] the rest.
ParseEntry(line, ct, rows) ==
  IF ~Contains(line, "]")
  THEN ParseResult("ValueError", ct, rows)
  ELSE LET ts_end == IndexOf(line, "]")
           ts == SubSeq(line, 2, ts_end - 1)
           rest == SubSeq(line, ts_end + 2, Len(line))
       IN  IF ~strptime_ok(ts)
           THEN ParseResult("ValueError", ct, rows)
           ELSE IF Contains(rest, ":")
           THEN ParseUserLoc(rest, strptime(ts), ct, rows)
           ELSE ParseResult("none", ct, rows)

\* Faulty variant of the loop body: entry lines parsed without a header seen.
ParseLine_nogate(raw, ct, rows) ==
  LET line == strip(raw)
  IN  IF line # <<>> /\ line[1] = "--- Snapshot"
      THEN ParseHeader(line, ct, rows)
      ELSE IF line # <<>> /\ line[1] = "["
      THEN ParseEntry(line, ct, rows)
      ELSE ParseResult("none", ct, rows)

\* The loop body for one line read from the file.
ParseLine(raw, ct, rows) ==
  LET line == strip(raw)
  IN  IF line # <<>> /\ line[1] = "--- Snapshot"
      THEN ParseHeader(line, ct, rows)
      ELSE IF line # <<>> /\ line[1] = "[" /\ ct # NoTime
      THEN ParseEntry(line, ct, rows)
      ELSE ParseResult("none", ct, rows)

----------------------------------------------------------------------------
\* The input: the lines a log file may hold

Alpha1 == <<"A", "l", "p", "h", "a", "1">>
Bdr2 == <<"b", "d", "r", "-", "2">>

HeaderLine(ts) == <<"--- Snapshot", " at ", ts, " UTC", " ---", "\n">>

EntryLine(ts, user, lon, lat) ==
  <<"[", ts, "]", " ">> \o user \o <<":", " ", lon, ",", lat, "\n">>

\* Lines of the two shapes of the log format.
GoodLines ==
  { HeaderLine(TS0),
    EntryLine(TS5, Alpha1, "174.76", "-41.29"),
    EntryLine(TS5, Alpha1, "174.8", "-41.30"),
    EntryLine(TS10, Alpha1, "174.80", "-41.30"),
    EntryLine(TS0, Bdr2, "174.70", "-41.20") }

\* Lines that are not: neither shape, no colon, a malformed or missing
\* coordinate, a malformed bracketed timestamp, a missing "]", a header
\* without " at ", a header with a malformed timestamp.
BadLines ==
  { <<"h", "a", "\n">>,
    <<"[", TS5, "]", " ">> \o Alpha1 \o <<" ", "174.76", ",", "-41.29", "\n">>,
    <<"[", TS5, "]", " ">> \o Alpha1 \o <<":", " ", "a", "b", ",", "-41.29", "\n">>,
    <<"[", TS5, "]", " ">> \o Alpha1 \o <<":", " ", "174.76", "\n">>,
    <<"[", TSShort, "]", " ">> \o Alpha1 \o <<":", " ", "174.76", ",", "-41.29", "\n">>,
    <<"[", TS5, " ">> \o Alpha1 \o <<":", " ", "174.76", ",", "-41.29", "\n">>,
    <<"--- Snapshot", " UTC", " ---", "\n">>,
    <<"--- Snapshot", " at ", TSShort, " UTC", " ---", "\n">> }

LogLines == GoodLines \cup BadLines

\* Entities whose letters are mixed with digits or are fewer than three.
Etg7 == <<"E", "7", "t", "g">>
T1 == <<"t", "1">>

\* An entry line with a third comma-separated field, and one whose third
\* field holds a second colon.
ThirdFieldLine ==
  <<"[", TS10, "]", " ">> \o Alpha1
    \o <<":", " ", "174.80", ",", "-41.30", ",", "7", "\n">>

SecondColonLine ==
  <<"[", TS5, "]", " ">> \o Alpha1
    \o <<":", " ", "174.76", ",", "-41.29", ",", "n", "o", "t", "e", ":", "x", "\n">>

\* Lines that vary the entity and the fields of an entry.
EntryForms ==
  { HeaderLine(TS0),
    EntryLine(TS5, Alpha1, "174.76", "-41.29"),
    EntryLine(TS0, Bdr2, "174.70", "-41.20"),
    EntryLine(TS5, Etg7, "174.70", "-41.20"),
    EntryLine(TS10, T1, "174.80", "-41.30"),
    ThirdFieldLine,
    SecondColonLine }

EntryLogs == UNION { [1..n -> EntryForms] : n \in 0..MaxLines }

\* Well-formed lines at three different times, and the logs made of them.
PlaybackLines ==
  { HeaderLine(TS0),
    EntryLine(TS0, Bdr2, "174.70", "-41.20"),
    EntryLine(TS5, Alpha1, "174.76", "-41.29"),
    EntryLine(TS10, Alpha1, "174.80", "-41.30") }

PlaybackLogs == UNION { [1..n -> PlaybackLines] : n \in 0..MaxLines }

Logs == UNION { [1..n -> LogLines] : n \in 0..MaxLines }

----------------------------------------------------------------------------
\* The frame, the timeline and the reconstruction

VARIABLES
  log,            \* the lines of atak_logs/data.log
  i,              \* the line the parsing loop reads next
  current_time,   \* the ambient header time
  data,           \* the rows appended so far
  error,          \* the exception that ended the program, or "none"
  pc,             \* "parse", "page" (initial callbacks), "run", "failed"
  df,             \* the frame, sorted by time
  unique_times,   \* the timeline
  initial,        \* the callbacks whose page-load call is still to come
  value,          \* time-slider.value, the cursor
  figure,         \* map-graph.figure
  map_state,      \* map-state.data
  disabled,       \* interval-component.disabled
  interval,       \* interval-component.interval
  status,         \* play-status.children
  triggered,      \* the button of the last control_interval call
  ticks           \* history: advance_slider calls since the cursor was 0

vars == <<log, i, current_time, data, error, pc, df, unique_times, initial,
          value, figure, map_state, disabled, interval, status, triggered,
          ticks>>

Injective(f) == \A a, b \in DOMAIN f : f[a] = f[b] => a = b

\* rows.sort_values("time"): the default sort is not stable, so rows with
\* equal times may come out in any order.
sort_values(rows) ==
  { [k \in 1..Len(rows) |-> rows[p[k]]] :
      p \in { q \in [1..Len(rows) -> 1..Len(rows)] :
                /\ Injective(q)
                /\ \A a, b \in 1..Len(rows) :
                     a < b => rows[q[a]].time <= rows[q[b]].time } }

\* sorted(df['time'].unique())
RECURSIVE SortedSeq(_)
SortedSeq(S) ==
  IF S = {} THEN <<>>
  ELSE LET m == CHOOSE x \in S : \A y \in S : x <= y
       IN  <<m>> \o SortedSeq(S \ {m})

\* Faulty variant of the timeline: latest time first.
TimesOf_desc(rows) ==
  LET asc == SortedSeq({ rows[k].time : k \in 1..Len(rows) })
  IN  [k \in 1..Len(asc) |-> asc[Len(asc) + 1 - k]]

\* Faulty variant of the timeline: sorted, but a time kept once per row.
TimesOf_dups(rows) ==
  LET asc == SortedSeq({ rows[k].time : k \in 1..Len(rows) })
      copies(t) == Cardinality({ k \in 1..Len(rows) : rows[k].time = t })
      RECURSIVE Spread(_)
      Spread(ts) ==
        IF ts = <<>> THEN <<>>
        ELSE [k \in 1..copies(Head(ts)) |-> Head(ts)] \o Spread(Tail(ts))
  IN  Spread(asc)

TimesOf(rows) == SortedSeq({ rows[k].time : k \in 1..Len(rows) })

\* Faulty variant of the filter: rows strictly before the cursor time.
FilterUpTo_strict(rows, t) ==
  LET keep(r) == r.time < t IN SelectSeq(rows, keep)

\* Faulty variant of the filter: only the rows at the cursor time.
FilterUpTo_exact(rows, t) ==
  LET keep(r) == r.time = t IN SelectSeq(rows, keep)

\* df[df['time'] <= current_time]
FilterUpTo(rows, t) ==
  LET keep(r) == r.time <= t IN SelectSeq(rows, keep)

\* Faulty variant of the grouping: every row kept.
GroupTail_all(rows) == rows

\* rows.groupby("user").tail(1): the last row of each user, in row order.
GroupTail(rows) ==
  LET idx == { k \in 1..Len(rows) :
                 \A j \in (k + 1)..Len(rows) : rows[j].user # rows[k].user }
      pick(k) == CHOOSE r \in idx : Cardinality({ j \in idx : j < r }) = k - 1
  IN  [k \in 1..Cardinality(idx) |-> rows[pick(k)]]

\* column.unique(): the distinct values, in order of first appearance.
RECURSIVE Unique(_)
Unique(s) ==
  IF s = <<>> THEN <<>>
  ELSE LET rest == Unique(SubSeq(s, 1, Len(s) - 1))
       IN  IF \E k \in 1..(Len(s) - 1) : s[k] = s[Len(s)]
           THEN rest
           ELSE Append(rest, s[Len(s)])

\* tag_colors: "BDR..." red, "ETG..." blue, any other tag a hash colour.
TagColor(tag) ==
  IF Take(tag, 3) = <<"B", "D", "R">> THEN "red"
  ELSE IF Take(tag, 3) = <<"E", "T", "G">> THEN "blue"
  ELSE "hash"

\* One Scattermapbox trace per tag of current_df.
Trace(rows, tag) ==
  LET has(r) == r.tag = tag
      tag_df == SelectSeq(rows, has)
  IN  [name |-> tag,
       color |-> TagColor(tag),
       lon |-> [k \in 1..Len(tag_df) |-> tag_df[k].lon],
       lat |-> [k \in 1..Len(tag_df) |-> tag_df[k].lat],
       text |-> [k \in 1..Len(tag_df) |-> tag_df[k].user]]

Traces(rows) ==
  LET tags == Unique([k \in 1..Len(rows) |-> rows[k].tag])
  IN  [k \in 1..Len(tags) |-> Trace(rows, tags[k])]

RECURSIVE SumSeq(_)
SumSeq(s) == IF s = <<>> THEN 0 ELSE Head(s) + SumSeq(Tail(s))

\* column.mean(), to the thousandth of a degree below.
Mean(s) == SumSeq(s) \div Len(s)

DefaultLat == -41289
DefaultLon == 174762

\* The map centre: the stored centre, else the mean of the rows shown, else
\* the fixed default. None is the empty tuple.
CenterOf(rows, center) ==
  IF center = <<>>
  THEN IF rows # <<>>
       THEN <<Mean([k \in 1..Len(rows) |-> rows[k].lat]),
              Mean([k \in 1..Len(rows) |-> rows[k].lon])>>
       ELSE <<DefaultLat, DefaultLon>>
  ELSE center

\* The figure drawn from the rows kept.
FigureOf(current_df, center, zoom) ==
  [traces |-> Traces(current_df),
   center |-> CenterOf(current_df, center),
   zoom |-> zoom]

\* create_figure: the figures it may return, one per order the second sort
\* may leave rows of equal time in.
create_figure(t, center, zoom) ==
  { FigureOf(GroupTail(s), center, zoom) : s \in sort_values(FilterUpTo(df, t)) }

\* Faulty variant of update_map: the timeline read one position too far.
update_map_next(slider_value, state) ==
  create_figure(unique_times[IF slider_value + 2 <= Len(unique_times)
                             THEN slider_value + 2
                             ELSE slider_value + 1],
                state.center, state.zoom)

\* Faulty variant of update_map: the stored viewport not passed on.
update_map_default(slider_value, state) ==
  create_figure(unique_times[slider_value + 1], <<>>, 12)

\* unique_times[slider_value]: the 1-based position a 0-based Python index
\* denotes, a negative index counting from the end.
ListIndex(slider_value) ==
  IF slider_value >= 0
  THEN slider_value + 1
  ELSE Len(unique_times) + 1 + slider_value

\* update_map, with the 0-based slider value. An index outside the timeline
\* raises IndexError and the figure stays as it is.
update_map(slider_value, state) ==
  IF ListIndex(slider_value) \in 1..Len(unique_times)
  THEN create_figure(unique_times[ListIndex(slider_value)], state.center, state.zoom)
  ELSE {figure}

----------------------------------------------------------------------------
\* The callbacks

\* Faulty variant of update_map_state: a field absent from the event is
\* reset to its layout default.
update_map_state_reset(relayout, current_state) ==
  IF relayout.null
  THEN current_state
  ELSE [center |-> IF "mapbox.center" \in relayout.keys
                   THEN <<relayout.center.lat, relayout.center.lon>>
                   ELSE <<>>,
        zoom |-> IF "mapbox.zoom" \in relayout.keys
                 THEN relayout.zoom
                 ELSE 12]

\* update_map_state. A relayout event is null or carries a subset of the
\* keys "mapbox.center" and "mapbox.zoom".
update_map_state(relayout, current_state) ==
  IF relayout.null
  THEN current_state
  ELSE [center |-> IF "mapbox.center" \in relayout.keys
                   THEN <<relayout.center.lat, relayout.center.lon>>
                   ELSE current_state.center,
        zoom |-> IF "mapbox.zoom" \in relayout.keys
                 THEN relayout.zoom
                 ELSE current_state.zoom]

\* Faulty variant of control_interval: the play button toggles on its count.
control_interval_toggle(play, pause, fast, button_id) ==
  IF button_id = "play-btn" /\ play % 2 = 1
  THEN [disabled |-> FALSE, interval |-> 1000, children |-> "Playing"]
  ELSE IF button_id = "fast-btn"
  THEN [disabled |-> FALSE, interval |-> 100, children |-> "Fast-forward"]
  ELSE [disabled |-> TRUE, interval |-> 1000, children |-> "Paused"]

\* control_interval: play, pause and fast are the click counts, button_id
\* the triggering button ("" when ctx.triggered is empty).
control_interval(play, pause, fast, button_id) ==
  IF button_id = ""
  THEN [disabled |-> TRUE, interval |-> 1000, children |-> "Paused"]
  ELSE IF button_id = "play-btn"
  THEN [disabled |-> FALSE, interval |-> 1000, children |-> "Playing"]
  ELSE IF button_id = "fast-btn"
  THEN [disabled |-> FALSE, interval |-> 100, children |-> "Fast-forward"]
  ELSE [disabled |-> TRUE, interval |-> 1000, children |-> "Paused"]

\* Faulty variant of advance_slider: the cursor wraps to 0 after the end.
advance_slider_wrap(n, current_value) ==
  IF current_value < Len(unique_times) - 1
  THEN current_value + 1
  ELSE 0

\* Faulty variant of advance_slider: one step past the last index.
advance_slider_over(n, current_value) ==
  IF current_value <= Len(unique_times) - 1
  THEN current_value + 1
  ELSE current_value

\* Faulty variant of advance_slider: the cursor never moved.
advance_slider_stall(n, current_value) == current_value

\* advance_slider
advance_slider(n, current_value) ==
  IF current_value < Len(unique_times) - 1
  THEN current_value + 1
  ELSE current_value

----------------------------------------------------------------------------
\* Inputs of the callbacks

\* The click counts a control_interval call may carry.
MaxClicks == 1

Buttons == {"play-btn", "pause-btn", "fast-btn"}

Relayouts ==
  { [null |-> TRUE, keys |-> {}, center |-> [lat |-> 0, lon |-> 0], zoom |-> 0] }
  \cup
  { [null |-> FALSE, keys |-> K, center |-> [lat |-> -41000, lon |-> 174000], zoom |-> 9] :
      K \in SUBSET {"mapbox.center", "mapbox.zoom"} }

NoFigure == [traces |-> <<>>, center |-> <<>>, zoom |-> 0]

----------------------------------------------------------------------------
\* The program

\* The state before the parsing loop, for a set of possible log files; the
\* component properties hold their layout values.
Start(logs) ==
  /\ log \in logs
  /\ i = 1
  /\ current_time = NoTime
  /\ data = <<>>
  /\ error = "none"
  /\ pc = "parse"
  /\ df = <<>>
  /\ unique_times = <<>>
  /\ initial = {}
  /\ value = 0
  /\ figure = NoFigure
  /\ map_state = [center |-> <<>>, zoom |-> 12]
  /\ disabled = TRUE
  /\ interval = 1000
  /\ status = ""
  /\ triggered = ""
  /\ ticks = 0

Init == Start(Logs)

ui == <<initial, value, figure, map_state, disabled, interval, status, triggered, ticks>>

\* One iteration of `for line in f`.
ReadLine ==
  /\ pc = "parse"
  /\ i <= Len(log)
  /\ LET r == ParseLine(log[i], current_time, data)
     IN  IF r.error = "none"
         THEN /\ current_time' = r.current_time
              /\ data' = r.data
              /\ i' = i + 1
              /\ UNCHANGED <<error, pc>>
         ELSE /\ error' = r.error
              /\ pc' = "failed"
              /\ UNCHANGED <<current_time, data, i>>
  /\ UNCHANGED <<log, df, unique_times>>
  /\ UNCHANGED ui

\* End of file: the frame is built and sorted, the timeline computed and the
\* layout created. A frame built from no rows has no "time" column, and
\* sort_values raises KeyError.
LoadFrame ==
  /\ pc = "parse"
  /\ i > Len(log)
  /\ IF data = <<>>
     THEN /\ error' = "KeyError"
          /\ pc' = "failed"
          /\ UNCHANGED <<df, unique_times, initial>>
     ELSE /\ df' \in sort_values(data)
          /\ unique_times' = TimesOf(data)
          /\ pc' = "page"
          /\ initial' = {"control_interval", "advance_slider"}
          /\ UNCHANGED error
  /\ UNCHANGED <<log, i, current_time, data>>
  /\ UNCHANGED <<value, figure, map_state, disabled, interval, status, triggered, ticks>>

Rendered(left) == IF left = {} THEN "run" ELSE "page"

\* Page load: control_interval is called with nothing triggered.
InitialControlInterval ==
  /\ pc = "page"
  /\ "control_interval" \in initial
  /\ \E play, pause, fast \in {0} :
       LET r == control_interval(play, pause, fast, "")
       IN  /\ disabled' = r.disabled
           /\ interval' = r.interval
           /\ status' = r.children
  /\ triggered' = ""
  /\ initial' = initial \ {"control_interval"}
  /\ pc' = Rendered(initial')
  /\ UNCHANGED <<log, i, current_time, data, error, df, unique_times>>
  /\ UNCHANGED <<value, figure, map_state, ticks>>

\* The tick count kept for the cursor's run from 0, saturating at the
\* timeline length.
Counted(t) ==
  IF t < 0 THEN t
  ELSE IF t < Len(unique_times) THEN t + 1
  ELSE t

\* Page load: advance_slider is called with n_intervals = 0, and update_map
\* with the slider value it returns.
InitialAdvanceSlider ==
  /\ pc = "page"
  /\ "advance_slider" \in initial
  /\ value' = advance_slider(0, value)
  /\ figure' \in update_map(value', map_state)
  /\ ticks' = Counted(ticks)
  /\ initial' = initial \ {"advance_slider"}
  /\ pc' = Rendered(initial')
  /\ UNCHANGED <<log, i, current_time, data, error, df, unique_times>>
  /\ UNCHANGED <<map_state, disabled, interval, status, triggered>>

\* A timer tick: the enabled interval component fires, advance_slider sets
\* the slider and update_map redraws.
Tick ==
  /\ pc = "run"
  /\ ~disabled
  /\ \E n \in {1} : value' = advance_slider(n, value)
  /\ figure' \in update_map(value', map_state)
  /\ ticks' = Counted(ticks)
  /\ UNCHANGED <<log, i, current_time, data, error, pc, df, unique_times>>
  /\ UNCHANGED <<initial, map_state, disabled, interval, status, triggered>>

\* The user drags the slider to another position; update_map redraws.
Scrub ==
  /\ pc = "run"
  /\ \E v \in 0..(Len(unique_times) - 1) :
       /\ v # value
       /\ value' = v
       /\ ticks' = IF v = 0 THEN 0 ELSE -1
  /\ figure' \in update_map(value', map_state)
  /\ UNCHANGED <<log, i, current_time, data, error, pc, df, unique_times>>
  /\ UNCHANGED <<initial, map_state, disabled, interval, status, triggered>>

\* The user clicks one of the three buttons.
Press ==
  /\ pc = "run"
  /\ \E b \in Buttons : \E play, pause, fast \in 0..MaxClicks :
       LET r == control_interval(play, pause, fast, b)
       IN  /\ disabled' = r.disabled
           /\ interval' = r.interval
           /\ status' = r.children
           /\ triggered' = b
  /\ UNCHANGED <<log, i, current_time, data, error, pc, df, unique_times>>
  /\ UNCHANGED <<initial, value, figure, map_state, ticks>>

\* The user pans or zooms the map.
Relayout ==
  /\ pc = "run"
  /\ \E relayout \in Relayouts : map_state' = update_map_state(relayout, map_state)
  /\ UNCHANGED <<log, i, current_time, data, error, pc, df, unique_times>>
  /\ UNCHANGED <<initial, value, figure, disabled, interval, status, triggered, ticks>>

Next ==
  \/ ReadLine
  \/ LoadFrame
  \/ InitialControlInterval
  \/ InitialAdvanceSlider
  \/ Tick
  \/ Scrub
  \/ Press
  \/ Relayout

Spec == Init /\ [][Next]_vars

\* The same program on logs that vary the entity and the fields of an entry.
SpecEntries == Start(EntryLogs) /\ [][Next]_vars

\* A user who moves the slider only while the timer is stopped.
ScrubPaused == disabled /\ Scrub

NextLive ==
  \/ ReadLine
  \/ LoadFrame
  \/ InitialControlInterval
  \/ InitialAdvanceSlider
  \/ Tick
  \/ ScrubPaused
  \/ Press
  \/ Relayout

\* Playback on well-formed logs: the enabled interval component keeps firing.
SpecLive == Start(PlaybackLogs) /\ [][NextLive]_vars /\ WF_vars(Tick)

----------------------------------------------------------------------------
\* Vocabulary of the properties

\* The timeline length N.
N == Len(unique_times)

\* update_map has drawn the figure for the current cursor.
Drawn == pc \in {"page", "run"} /\ "advance_slider" \notin initial

\* The time the cursor stands at.
CursorTime == unique_times[value + 1]

\* The observations of the frame.
Rows == { df[k] : k \in 1..Len(df) }

\* The markers of a figure: one per point of each trace.
Slots(fig) ==
  UNION { { <<a, b>> : b \in 1..Len(fig.traces[a].text) } : a \in 1..Len(fig.traces) }

Marker(fig, s) ==
  [user |-> fig.traces[s[1]].text[s[2]],
   lon |-> fig.traces[s[1]].lon[s[2]],
   lat |-> fig.traces[s[1]].lat[s[2]],
   tag |-> fig.traces[s[1]].name]

Markers(fig) == { Marker(fig, s) : s \in Slots(fig) }

Users(fig) == { m.user : m \in Markers(fig) }

SlotsOf(fig, u) == { s \in Slots(fig) : Marker(fig, s).user = u }

\* A marker shows an observation: same entity, same coordinates.
Shows(m, r) == m.user = r.user /\ m.lon = r.lon /\ m.lat = r.lat

\* The observations of entity u at or before t, and the latest time among them.
Seen(u, t) == { r \in Rows : r.user = u /\ r.time <= t }

LatestTime(u, t) == CHOOSE x \in { r.time : r \in Seen(u, t) } :
                      \A r \in Seen(u, t) : r.time <= x

\* C1: at every cursor time of the timeline, the figure holds for each entity
\* observed at or before that time exactly one marker, showing an observation
\* of that entity with the greatest time at or before the cursor time, and no
\* marker for an entity not yet observed.
C1_LatestPerEntity ==
  Drawn =>
    /\ \A u \in { r.user : r \in Rows } :
         IF Seen(u, CursorTime) = {}
         THEN SlotsOf(figure, u) = {}
         ELSE /\ Cardinality(SlotsOf(figure, u)) = 1
              /\ \A s \in SlotsOf(figure, u) :
                   \E r \in Seen(u, CursorTime) :
                     /\ r.time = LatestTime(u, CursorTime)
                     /\ Shows(Marker(figure, s), r)
    /\ Users(figure) \subseteq { r.user : r \in Rows }

\* C1 witness: a cursor time at which one entity is shown and another, first
\* observed later, is absent.
C1_Witness ==
  /\ pc = "run"
  /\ \E a, b \in Rows :
       /\ a.user # b.user
       /\ a.time <= CursorTime
       /\ b.time > CursorTime
       /\ Seen(b.user, CursorTime) = {}
       /\ Users(figure) = {a.user}

\* C10: in every figure drawn, an entity has at most one marker, and once the
\* cursor is at or after a later observation of an entity, no marker shows the
\* coordinates of an earlier observation that the later ones replaced.
C10_NoStaleDuplicate ==
  Drawn =>
    /\ \A s1, s2 \in Slots(figure) :
         Marker(figure, s1).user = Marker(figure, s2).user => s1 = s2
    /\ \A a, b \in Rows :
         ( /\ a.user = b.user
           /\ a.time < b.time
           /\ b.time <= CursorTime
           /\ \A c \in Seen(a.user, CursorTime) :
                c.time > a.time => (c.lon # a.lon \/ c.lat # a.lat) )
         => \A m \in Markers(figure) : ~Shows(m, a)

\* C10 witness: the cursor stands at the later of two observations of one
\* entity and the figure shows the later coordinates.
C10_Witness ==
  /\ pc = "run"
  /\ \E a, b \in Rows :
       /\ a.user = b.user
       /\ a.time < b.time
       /\ b.time = CursorTime
       /\ (a.lon # b.lon \/ a.lat # b.lat)
       /\ \E m \in Markers(figure) : Shows(m, b)

\* C7: the entities shown at a timeline time are all still shown at every
\* later timeline time, and a tick never removes an entity from the figure.
C7_Monotonic ==
  /\ [](Drawn =>
          \A k1, k2 \in 1..N :
            k1 < k2 =>
              \A f1 \in create_figure(unique_times[k1], map_state.center, map_state.zoom) :
                \A f2 \in create_figure(unique_times[k2], map_state.center, map_state.zoom) :
                  Users(f1) \subseteq Users(f2))
  /\ [][Tick => Users(figure) \subseteq Users(figure')]_vars

\* C7 witness: ticks have moved the cursor past the only observation of an
\* entity, which is still shown next to a later one.
C7_Witness ==
  /\ pc = "run"
  /\ ticks >= 1
  /\ \E u \in Users(figure) :
       /\ \A r \in Seen(u, CursorTime) : r.time < CursorTime
       /\ \E w \in Users(figure) : w # u

\* The observations the parser produced.
Parsed == { data[k] : k \in 1..Len(data) }

\* C8: with the cursor at the last index, every entity of the parsed
\* observations is shown, at the coordinates of one of its latest observations.
C8_LastIndexShowsAll ==
  (Drawn /\ value = N - 1) =>
    /\ Users(figure) = { r.user : r \in Parsed }
    /\ \A m \in Markers(figure) :
         \E r \in Parsed :
           /\ Shows(m, r)
           /\ \A q \in Parsed : q.user = r.user => q.time <= r.time

\* C8 witness: the cursor at the last of several times, two entities shown,
\* one of them last observed earlier.
C8_Witness ==
  /\ pc = "run"
  /\ N >= 2
  /\ value = N - 1
  /\ Cardinality(Users(figure)) = 2
  /\ \E r \in Parsed : \A q \in Parsed : q.user = r.user => q.time < CursorTime

\* The earliest time of the log.
MinTime == CHOOSE x \in { r.time : r \in Rows } : \A r \in Rows : x <= r.time

\* C9 as stated: with the cursor at index 0 the figure shows exactly the
\* observations at the minimum time, none later and none of them missing.
C9_AllMinTimeObservations ==
  (Drawn /\ value = 0) =>
    /\ \A m \in Markers(figure) : \E r \in Rows : r.time = MinTime /\ Shows(m, r)
    /\ \A r \in Rows : r.time = MinTime => \E m \in Markers(figure) : Shows(m, r)

\* C9 amended: with the cursor at index 0 the figure shows only observations
\* at the minimum time, and exactly one for each entity observed at that time.
C9_OnePerEntityAtMinTime ==
  (Drawn /\ value = 0) =>
    /\ \A m \in Markers(figure) : \E r \in Rows : r.time = MinTime /\ Shows(m, r)
    /\ \A r \in Rows : r.time = MinTime => Cardinality(SlotsOf(figure, r.user)) = 1
    /\ \A m \in Markers(figure) : Cardinality(SlotsOf(figure, m.user)) = 1

\* C9 witness: the cursor at index 0, one entity with two different
\* observations at the minimum time, one marker.
C9_Witness ==
  /\ pc = "run"
  /\ value = 0
  /\ N >= 1
  /\ \E a, b \in Rows :
       /\ a.user = b.user
       /\ a.time = MinTime
       /\ b.time = MinTime
       /\ (a.lon # b.lon \/ a.lat # b.lat)
       /\ Cardinality(Slots(figure)) = 1

\* The entities and number texts an entry line of the log format may carry.
EntryUsers == {Alpha1, Bdr2}

\* The tag expected of each entity: its first three letters, in capitals.
ExpectedTag(user) ==
  IF user = Alpha1 THEN <<"A", "L", "P">> ELSE <<"B", "D", "R">>

\* Line k of the log is the entry line written from these four pieces, and a
\* header line stands before it.
IsEntryAfterHeader(k, ts, user, lon, lat) ==
  /\ log[k] = EntryLine(ts, user, lon, lat)
  /\ \E j \in 1..(k - 1) : \E hs \in TimeTexts : log[j] = HeaderLine(hs)

\* Another line of the log observes the same entity at the same time with
\* other coordinates.
Superseded(k, ts, user, lon, lat) ==
  \E j \in 1..Len(log) : \E lon2, lat2 \in FloatTexts :
    /\ j # k
    /\ log[j] = EntryLine(ts, user, lon2, lat2)
    /\ (FloatOf(lon2) # FloatOf(lon) \/ FloatOf(lat2) # FloatOf(lat))

\* C2: for every well-formed entry line after a header, the figure drawn at a
\* cursor time equal to the line's bracketed time has a marker with the
\* line's entity, the values of its longitude and latitude texts, and the
\* entity's tag, unless another observation of the entity at that time
\* supersedes it.
C2_RoundTrip ==
  Drawn =>
    \A k \in 1..Len(log) : \A ts \in TimeTexts : \A user \in EntryUsers :
      \A lon, lat \in FloatTexts :
        ( /\ IsEntryAfterHeader(k, ts, user, lon, lat)
          /\ TimeOf(ts) = CursorTime
          /\ ~Superseded(k, ts, user, lon, lat) )
        => [user |-> user, lon |-> FloatOf(lon), lat |-> FloatOf(lat),
            tag |-> ExpectedTag(user)] \in Markers(figure)

\* C2 witness: the log of the scenario, header at 12:00:00 and Alpha1 at
\* 12:00:05, with the cursor at 12:00:05 and the marker drawn.
C2_Witness ==
  /\ pc = "run"
  /\ Len(log) >= 2
  /\ log[1] = HeaderLine(TS0)
  /\ log[2] = EntryLine(TS5, Alpha1, "174.76", "-41.29")
  /\ CursorTime = 5
  /\ [user |-> Alpha1, lon |-> 174760, lat |-> -41290, tag |-> <<"A", "L", "P">>]
       \in Markers(figure)

\* The smaller of two numbers.
Min(a, b) == IF a < b THEN a ELSE b

\* C3: a call of advance_slider moves the cursor from c to c+1 when c < N-1
\* and leaves it when c = N-1; so after k calls from cursor 0 the cursor is at
\* min(k, N-1), and at N-1 for every k >= N.
C3_TickClamps ==
  /\ [][(Tick \/ InitialAdvanceSlider) =>
          value' = (IF value < N - 1 THEN value + 1 ELSE value)]_vars
  /\ []((pc \in {"page", "run"} /\ ticks >= 0) =>
          /\ value = Min(ticks, N - 1)
          /\ (ticks >= N => value = N - 1))

\* C3 witness: N or more calls since the cursor was 0, on a timeline of
\* several times, and the cursor at the last index.
C3_Witness ==
  /\ pc = "run"
  /\ N >= 2
  /\ ticks >= N
  /\ value = N - 1

\* C4: the timer starts disabled, and after every control_interval call the
\* timer and the status depend on the triggering button alone: play enables
\* it at 1000 ms, fast-forward at 100 ms, pause or no trigger disables it.
C4_TriggerDecides ==
  /\ triggered = "" => (disabled /\ interval = 1000 /\ status \in {"", "Paused"})
  /\ (triggered = "" /\ pc = "run") => status = "Paused"
  /\ triggered = "play-btn" => (~disabled /\ interval = 1000 /\ status = "Playing")
  /\ triggered = "fast-btn" => (~disabled /\ interval = 100 /\ status = "Fast-forward")
  /\ triggered = "pause-btn" => (disabled /\ interval = 1000 /\ status = "Paused")

\* C4 witness: fast-forward pressed, the timer running at 100 ms.
C4_Witness ==
  /\ pc = "run"
  /\ triggered = "fast-btn"
  /\ ~disabled
  /\ interval = 100

\* The whole parsing loop over some lines: the outcome of ReadLine repeated
\* from the first line until a line fails or the lines end.
RECURSIVE ParseFrom(_, _, _, _)
ParseFrom(lines, k, ct, rows) ==
  IF k > Len(lines)
  THEN ParseResult("none", ct, rows)
  ELSE LET r == ParseLine(lines[k], ct, rows)
       IN  IF r.error # "none" THEN r
           ELSE ParseFrom(lines, k + 1, r.current_time, r.data)

ParseAll(lines) == ParseFrom(lines, 1, NoTime, <<>>)

\* The lines without line k.
RemoveAt(lines, k) == SubSeq(lines, 1, k - 1) \o SubSeq(lines, k + 1, Len(lines))

\* The parsing loop has ended, at the end of the file or in an exception.
ParseEnded == pc # "parse" \/ i > Len(log)

\* C5 as stated: a log with a single bad line parses without failure on that
\* line, to the observations of the same log without the line.
C5_BadLineSkipped ==
  ParseEnded =>
    \A k \in 1..Len(log) :
      ( /\ log[k] \in BadLines
        /\ \A j \in 1..Len(log) : j # k => log[j] \in GoodLines )
      => /\ ~(pc = "failed" /\ i = k)
         /\ data = ParseAll(RemoveAt(log, k)).data

LineStartsWith(line, lexeme) == strip(line) # <<>> /\ strip(line)[1] = lexeme

\* A header line stands before line k of the log.
HeaderBefore(k) == \E j \in 1..(k - 1) : LineStartsWith(log[j], "--- Snapshot")

\* C6: the parser adds an observation only while reading an entry line that
\* has a header line before it, one observation at a time after the ones it
\* has; reading a header line, or any line before the first header, leaves the
\* observations as they are.
C6_HeaderGates ==
  [][ /\ (data' # data =>
            /\ pc = "parse"
            /\ LineStartsWith(log[i], "[")
            /\ HeaderBefore(i)
            /\ Len(data') = Len(data) + 1
            /\ SubSeq(data', 1, Len(data)) = data)
      /\ ((pc = "parse" /\ i <= Len(log) /\ LineStartsWith(log[i], "--- Snapshot"))
            => data' = data)
      /\ ((pc = "parse" /\ i <= Len(log) /\ ~HeaderBefore(i)) => data' = data) ]_vars

\* C6 witness: a well-formed entry line before the first header was read and
\* dropped, and the entry line after the header gave the only observation.
C6_Witness ==
  /\ pc = "parse"
  /\ i = 4
  /\ Len(log) = 3
  /\ log[1] = EntryLine(TS5, Alpha1, "174.76", "-41.29")
  /\ log[2] = HeaderLine(TS0)
  /\ log[3] = EntryLine(TS10, Alpha1, "174.80", "-41.30")
  /\ Len(data) = 1
  /\ data[1].time = 10

\* C11: update_map_state changes only the viewport fields the event names: a
\* centre-only event keeps the zoom, a zoom-only event keeps the centre (an
\* unset centre stays unset), an event with neither and a null event keep
\* both; and a map interaction leaves the cursor, the figure and the timer
\* as they are.
C11_RelayoutFrame ==
  /\ [](pc = "run" =>
          \A relayout \in Relayouts :
            LET new == update_map_state(relayout, map_state)
            IN  /\ (relayout.null \/ relayout.keys = {}) => new = map_state
                /\ (~relayout.null /\ "mapbox.center" \notin relayout.keys)
                     => new.center = map_state.center
                /\ (~relayout.null /\ "mapbox.zoom" \notin relayout.keys)
                     => new.zoom = map_state.zoom
                /\ (~relayout.null /\ "mapbox.center" \in relayout.keys)
                     => new.center = <<relayout.center.lat, relayout.center.lon>>
                /\ (~relayout.null /\ "mapbox.zoom" \in relayout.keys)
                     => new.zoom = relayout.zoom)
  /\ [][Relayout => UNCHANGED <<value, figure, disabled, interval, status>>]_vars

\* C11 witness: a zoom-only interaction has been stored, the centre still unset.
C11_Witness ==
  /\ pc = "run"
  /\ map_state.center = <<>>
  /\ map_state.zoom = 9

\* The centre create_figure computes when none is stored: the mean of the
\* markers' coordinates, or the fixed default without markers.
AutoCenter(fig) ==
  IF Slots(fig) = {}
  THEN <<DefaultLat, DefaultLon>>
  ELSE LET slots == Slots(fig)
           lats == { <<s, Marker(fig, s).lat>> : s \in slots }
           lons == { <<s, Marker(fig, s).lon>> : s \in slots }
           RECURSIVE Total(_)
           Total(S) == IF S = {} THEN 0
                       ELSE LET x == CHOOSE y \in S : TRUE
                            IN  x[2] + Total(S \ {x})
       IN  <<Total(lats) \div Cardinality(slots), Total(lons) \div Cardinality(slots)>>

\* C12: every redraw, by a tick, a scrub or the page load, leaves the stored
\* viewport as it is and draws the map with the stored zoom and, when a centre
\* is stored, with exactly that centre; the computed centre is used only while
\* none is stored.
C12_ViewportPersists ==
  [][(Tick \/ Scrub \/ InitialAdvanceSlider) =>
       /\ map_state' = map_state
       /\ figure'.zoom = map_state.zoom
       /\ (map_state.center # <<>> => figure'.center = map_state.center)
       /\ (map_state.center = <<>> => figure'.center = AutoCenter(figure'))]_vars

\* C12 witness: a figure drawn at a cursor past the start with the centre and
\* zoom an interaction stored.
C12_Witness ==
  /\ pc = "run"
  /\ value >= 1
  /\ map_state = [center |-> <<-41000, 174000>>, zoom |-> 9]
  /\ figure.center = <<-41000, 174000>>
  /\ figure.zoom = 9
  /\ Slots(figure) # {}

\* The positions in the input order of the observations of entity u at its
\* latest time at or before t.
TiedLatest(u, t) ==
  { k \in 1..Len(data) : data[k].user = u /\ data[k].time = LatestTime(u, t) }

C14_CursorInRange ==
  pc \in {"page", "run"} =>
    /\ value \in 0..(N - 1)
    /\ ListIndex(value) \in 1..N

\* C14 witness: the cursor at the last index of a timeline of several times,
\* after a scrub, a map interaction and a button press, with the timer running.
C14_Witness ==
  /\ pc = "run"
  /\ N >= 2
  /\ value = N - 1
  /\ ticks = -1
  /\ ~disabled
  /\ map_state.zoom = 9

\* C16: the timeline is strictly increasing and holds exactly the times of the
\* observations, so every cursor value stands at a time with an observation
\* and every figure drawn has a marker.
C16_TimelineOfObservationTimes ==
  pc \in {"page", "run"} =>
    /\ \A a, b \in 1..N : a < b => unique_times[a] < unique_times[b]
    /\ { unique_times[k] : k \in 1..N } = { r.time : r \in Parsed }
    /\ \A v \in 0..(N - 1) : \E r \in Rows : r.time = unique_times[v + 1]
    /\ \E r \in Rows : r.time = CursorTime
    /\ Drawn => Slots(figure) # {}

\* C16 witness: two observations at one time give a timeline of that one
\* time; a timer tick has left the cursor on it and a marker is drawn.
C16_Witness ==
  /\ pc = "run"
  /\ N = 1
  /\ Len(df) = 2
  /\ ~disabled
  /\ ticks >= 1
  /\ value = 0
  /\ Slots(figure) # {}

\* C18 as stated: a log that yields no observation loads without failure, to
\* a timeline of length zero.
C18_EmptyLogLoads ==
  (pc # "parse" /\ i > Len(log) /\ data = <<>>) =>
    /\ pc \in {"page", "run"}
    /\ error = "none"
    /\ N = 0

\* C19 as stated: while the timer is disabled the cursor changes only by a
\* scrub, so after the page load and before any user action it is still 0.
C19_PausedCursorOnlyByScrub ==
  [][(disabled /\ value' # value) => Scrub]_vars

\* The first three letters of each entity, in capitals, written out.
FirstThreeLetters(user) ==
  CASE user = Alpha1 -> <<"A", "L", "P">>
    [] user = Bdr2 -> <<"B", "D", "R">>
    [] user = Etg7 -> <<"E", "T", "G">>
    [] user = T1 -> <<"T">>

\* C15: the tag of every parsed observation is the first three letters of its
\* entity (fewer when it has fewer, digits and punctuation skipped), in
\* capitals, so observations of one entity carry one tag.
C15_TagFromEntity ==
  /\ \A r \in Parsed : r.tag = FirstThreeLetters(r.user)
  /\ \A r1, r2 \in Parsed : r1.user = r2.user => r1.tag = r2.tag

\* C15 witness: parsed observations of an entity with a digit among its first
\* three characters and of an entity with a single letter.
C15_Witness ==
  /\ i > Len(log)
  /\ \E r \in Parsed : r.user = Etg7 /\ r.tag = <<"E", "T", "G">>
  /\ \E r \in Parsed : r.user = T1 /\ r.tag = <<"T">>

\* The entry lines with more than two fields, with the observation the log
\* format gives each.
ManyFieldLines ==
  { [line |-> ThirdFieldLine,
     row |-> [time |-> 10, user |-> Alpha1, lon |-> 174800, lat |-> -41300,
              tag |-> <<"A", "L", "P">>]],
    [line |-> SecondColonLine,
     row |-> [time |-> 5, user |-> Alpha1, lon |-> 174760, lat |-> -41290,
              tag |-> <<"A", "L", "P">>]] }

\* The lines of EntryForms with exactly two fields, and the header.
PlainForms == EntryForms \ { ThirdFieldLine, SecondColonLine }

\* C17 as stated: an entry line with more than one colon or more than two
\* comma-separated fields, after a header, yields exactly one observation:
\* the entity before the first colon with the first two fields after it.
C17_FirstColonSplit ==
  ParseEnded =>
    \A k \in 1..Len(log) : \A m \in ManyFieldLines :
      ( /\ log[k] = m.line
        /\ \E j \in 1..(k - 1) : log[j] = HeaderLine(TS0)
        /\ \A j \in 1..Len(log) : j # k => log[j] \in PlainForms )
      => /\ ~(pc = "failed" /\ i = k)
         /\ Len(data) = Len(ParseAll(RemoveAt(log, k)).data) + 1
         /\ m.row \in Parsed

\* C20: under playback that is never stopped again, with no scrub, the cursor
\* comes to the last index and stays there, the timer still enabled.
C20_PlaybackReachesEnd ==
  <>[](~disabled) => <>[](pc = "run" /\ value = N - 1 /\ ~disabled)

\* C20 witness: the timer running with the cursor at the last index of a
\* timeline of several times, N or more ticks after the cursor was 0.
C20_Witness ==
  /\ pc = "run"
  /\ ~disabled
  /\ N >= 2
  /\ ticks >= N
  /\ value = N - 1

====
